---- MODULE Spec2Model ----
(***************************************************************************)
(* Model of wrapper/src-tauri/create_dmg_background.py: a straight-line    *)
(* script that renders a base canvas and a 2x canvas (line, arrowhead,     *)
(* caption) and saves each to a PNG file in the working directory.         *)
(*                                                                         *)
(* The script is one process; pc is the statement it is about to execute.  *)
(* The environment is the working directory (fs), the outcome of each      *)
(* font load, the text metrics the drawing library reports for a font,     *)
(* and exceptions raised by library calls.                                 *)
(***************************************************************************)
EXTENDS Integers, Sequences, FiniteSets, TLC

VARIABLES pc, run, images, img, img_2x, arrow_head_size, font, text, bbox,
          text_x, font_2x, bbox_2x, text_x_2x, fs, fs0, out, failedAt,
          metrics, prev

vars == <<pc, run, images, img, img_2x, arrow_head_size, font, text, bbox,
          text_x, font_2x, bbox_2x, text_x_2x, fs, fs0, out, failedAt,
          metrics, prev>>

(* ------------------------------ bounds --------------------------------- *)

\* number of times the script is run in the same working directory
MaxRuns == 2

\* largest left bearing (bbox[0]) the text measurement reports at origin 0
MaxBearing == 1

\* largest caption width the text measurement reports (smallest is 91)
MaxTextWidth == 91

(* ------------------------- layout constants ---------------------------- *)

WIDTH == 660

HEIGHT == 400

Background == <<240, 240, 245>>

Stroke == <<150, 150, 160>>

TextColor == <<100, 100, 110>>

arrow_y == 190

arrow_start_x == 250

arrow_end_x == 400

arrow_width == 2

arrow_y_2x == 190 * 2

arrow_start_x_2x == 250 * 2

arrow_end_x_2x == 400 * 2

arrow_width_2x_same == arrow_width

arrow_width_2x == 2 * 2

text_y == arrow_y + 12

text_y_2x == arrow_y_2x + 24

output_path == "dmg-background.png"

output_path_2x == "dmg-background@2x.png"

OutputNames == {output_path, output_path_2x}

\* an unrelated file of the working directory
OtherFile == "icons.icns"

FileNames == OutputNames \cup {OtherFile}

Msg == "DMG background created: dmg-background.png"

Msg_2x == "DMG background @2x created: dmg-background@2x.png"

(* ------------------------------ values --------------------------------- *)

\* a name that is not bound yet
NoImage == [size |-> <<0, 0>>, color |-> <<0, 0, 0>>, ops |-> <<>>]

NoFont == [kind |-> "none", size |-> 0]

NoBBox == <<0, 0, 0, 0>>

\* Image.new('RGB', size, color=color)
Image_new(size, color) == [size |-> size, color |-> color, ops |-> <<>>]

img_size == <<WIDTH, HEIGHT>>

img_2x_size_square == <<WIDTH * 2, HEIGHT>>

img_2x_size == <<WIDTH * 2, HEIGHT * 2>>

\* ImageFont.truetype("/System/Library/Fonts/Helvetica.ttc", size)
truetype(size) == [kind |-> "truetype", size |-> size]

\* ImageFont.load_default(): called without a size, so every call returns
\* the same built-in font (size 10 in current Pillow)
load_default == [kind |-> "default", size |-> 10]

Fonts == {truetype(14), truetype(28), load_default}

\* the boxes textbbox((0, 0), text, font) may report: (left, top, right, bottom)
BBoxes == {<<l, 0, l + w, 14>> : l \in 0..MaxBearing, w \in 91..MaxTextWidth}

\* the drawing operations recorded on a canvas
LineOp(xy, fill, width) ==
    [op |-> "line", xy |-> xy, fill |-> fill, width |-> width,
     text |-> "", font |-> NoFont]

PolygonOp(xy, fill) ==
    [op |-> "polygon", xy |-> xy, fill |-> fill, width |-> 0,
     text |-> "", font |-> NoFont]

TextOp(xy, t, fill, f) ==
    [op |-> "text", xy |-> <<xy>>, fill |-> fill, width |-> 0,
     text |-> t, font |-> f]

\* a drawing call on the ImageDraw of canvas im
Draw(im, o) == [im EXCEPT !.ops = Append(@, o)]

arrow_head ==
    << <<arrow_end_x + 2, arrow_y>>,
       <<arrow_end_x - arrow_head_size, arrow_y - arrow_head_size \div 2>>,
       <<arrow_end_x - arrow_head_size, arrow_y + arrow_head_size \div 2>> >>

arrow_head_2x_unscaled ==
    << <<arrow_end_x_2x + 2, arrow_y_2x>>,
       <<arrow_end_x_2x - arrow_head_size, arrow_y_2x - arrow_head_size \div 2>>,
       <<arrow_end_x_2x - arrow_head_size, arrow_y_2x + arrow_head_size \div 2>> >>

arrow_head_2x ==
    << <<arrow_end_x_2x + 4, arrow_y_2x>>,
       <<arrow_end_x_2x - arrow_head_size * 2, arrow_y_2x - arrow_head_size>>,
       <<arrow_end_x_2x - arrow_head_size * 2, arrow_y_2x + arrow_head_size>> >>

\* text_x = (arrow_start_x + arrow_end_x) // 2 - text_width // 2
TextX(b) == (arrow_start_x + arrow_end_x) \div 2 - (b[3] - b[1]) \div 2

TextX_2x(b) == (arrow_start_x_2x + arrow_end_x_2x) \div 2 - (b[3] - b[1]) \div 2

(* ---------------------------- file system ------------------------------ *)

Absent == [kind |-> "absent", size |-> <<0, 0>>, data |-> <<>>]

\* a file left by something else than this version of the script
Stale == [kind |-> "stale", size |-> <<0, 0>>, data |-> <<>>]

\* a file a failed save left truncated
Partial == [kind |-> "partial", size |-> <<0, 0>>, data |-> <<>>]

\* the PNG encoding of a canvas: its dimensions and its pixels, which are
\* the background colour overdrawn by the recorded operations
PNG(im) == [kind |-> "png", size |-> im.size, data |-> <<im.color, im.ops>>]

Files(f) == {n \in FileNames : f[n].kind # "absent"}

WriteFile_noclobber(f, name, content) ==
    IF f[name].kind = "absent" THEN [f EXCEPT ![name] = content] ELSE f

\* open(name, "w+b") and write: creates the file or replaces its contents
WriteFile(f, name, content) == [f EXCEPT ![name] = content]

(* ------------------------------- Init ---------------------------------- *)

Init ==
    /\ pc = "import"
    /\ run = 1
    /\ images = <<>>
    /\ img = NoImage
    /\ img_2x = NoImage
    /\ arrow_head_size = 0
    /\ font = NoFont
    /\ text = ""
    /\ bbox = NoBBox
    /\ text_x = 0
    /\ font_2x = NoFont
    /\ bbox_2x = NoBBox
    /\ text_x_2x = 0
    /\ fs \in [FileNames -> {Absent, Stale}]
    /\ fs[OtherFile] = Stale
    /\ fs0 = fs
    /\ out = <<>>
    /\ failedAt = "none"
    /\ metrics \in [Fonts -> BBoxes]
    /\ prev = [fs |-> fs, font |-> NoFont, font_2x |-> NoFont]

(* ------------------------------ actions -------------------------------- *)

\* line 4
Import ==
    /\ pc = "import"
    /\ pc' = "new"
    /\ UNCHANGED <<run, images, img, img_2x, arrow_head_size, font, text,
                   bbox, text_x, font_2x, bbox_2x, text_x_2x, fs, fs0, out,
                   failedAt, metrics, prev>>

\* lines 11-12
NewImage ==
    /\ pc = "new"
    /\ img' = Image_new(img_size, Background)
    /\ images' = Append(images, img_size)
    /\ pc' = "line"
    /\ UNCHANGED <<run, img_2x, arrow_head_size, font, text, bbox, text_x,
                   font_2x, bbox_2x, text_x_2x, fs, fs0, out, failedAt,
                   metrics, prev>>

\* lines 31-32
DrawLine ==
    /\ pc = "line"
    /\ img' = Draw(img, LineOp(<< <<arrow_start_x, arrow_y>>,
                                  <<arrow_end_x, arrow_y>> >>,
                               Stroke, arrow_width))
    /\ pc' = "head_size"
    /\ UNCHANGED <<run, images, img_2x, arrow_head_size, font, text, bbox,
                   text_x, font_2x, bbox_2x, text_x_2x, fs, fs0, out,
                   failedAt, metrics, prev>>

\* line 35
SetHeadSize ==
    /\ pc = "head_size"
    /\ arrow_head_size' = 20
    /\ pc' = "polygon"
    /\ UNCHANGED <<run, images, img, img_2x, font, text, bbox, text_x,
                   font_2x, bbox_2x, text_x_2x, fs, fs0, out, failedAt,
                   metrics, prev>>

\* lines 36-41
DrawPolygon ==
    /\ pc = "polygon"
    /\ img' = Draw(img, PolygonOp(arrow_head, Stroke))
    /\ pc' = "font"
    /\ UNCHANGED <<run, images, img_2x, arrow_head_size, font, text, bbox,
                   text_x, font_2x, bbox_2x, text_x_2x, fs, fs0, out,
                   failedAt, metrics, prev>>

LoadFont_uncaught ==
    /\ pc = "font"
    /\ \E ok \in BOOLEAN :
         IF ok
         THEN /\ font' = truetype(14)
              /\ pc' = "caption"
              /\ failedAt' = failedAt
         ELSE /\ font' = font
              /\ pc' = "error"
              /\ failedAt' = "font"
    /\ UNCHANGED <<run, images, img, img_2x, arrow_head_size, text, bbox,
                   text_x, font_2x, bbox_2x, text_x_2x, fs, fs0, out,
                   metrics, prev>>

\* lines 44-49: the load succeeds, or raises and the bare except substitutes
\* the default font
LoadFont ==
    /\ pc = "font"
    /\ \E ok \in BOOLEAN :
         font' = IF ok THEN truetype(14) ELSE load_default
    /\ pc' = "caption"
    /\ UNCHANGED <<run, images, img, img_2x, arrow_head_size, text, bbox,
                   text_x, font_2x, bbox_2x, text_x_2x, fs, fs0, out,
                   failedAt, metrics, prev>>

\* line 51
SetCaption ==
    /\ pc = "caption"
    /\ text' = "Drag to install"
    /\ pc' = "bbox"
    /\ UNCHANGED <<run, images, img, img_2x, arrow_head_size, font, bbox,
                   text_x, font_2x, bbox_2x, text_x_2x, fs, fs0, out,
                   failedAt, metrics, prev>>

\* lines 53-56
Measure ==
    /\ pc = "bbox"
    /\ bbox' = metrics[font]
    /\ text_x' = TextX(metrics[font])
    /\ pc' = "text"
    /\ UNCHANGED <<run, images, img, img_2x, arrow_head_size, font, text,
                   font_2x, bbox_2x, text_x_2x, fs, fs0, out, failedAt,
                   metrics, prev>>

\* line 58
DrawText ==
    /\ pc = "text"
    /\ img' = Draw(img, TextOp(<<text_x, text_y>>, text, TextColor, font))
    /\ pc' = "save"
    /\ UNCHANGED <<run, images, img_2x, arrow_head_size, font, text, bbox,
                   text_x, font_2x, bbox_2x, text_x_2x, fs, fs0, out,
                   failedAt, metrics, prev>>

SaveImage_skipped ==
    /\ pc = "save"
    /\ pc' = "print"
    /\ UNCHANGED <<run, images, img, img_2x, arrow_head_size, font, text,
                   bbox, text_x, font_2x, bbox_2x, text_x_2x, fs, fs0, out,
                   failedAt, metrics, prev>>

\* lines 61-62
SaveImage ==
    /\ pc = "save"
    /\ fs' = WriteFile(fs, output_path, PNG(img))
    /\ pc' = "print"
    /\ UNCHANGED <<run, images, img, img_2x, arrow_head_size, font, text,
                   bbox, text_x, font_2x, bbox_2x, text_x_2x, fs0, out,
                   failedAt, metrics, prev>>

\* line 63
PrintCreated ==
    /\ pc = "print"
    /\ out' = Append(out, Msg)
    /\ pc' = "new_2x"
    /\ UNCHANGED <<run, images, img, img_2x, arrow_head_size, font, text,
                   bbox, text_x, font_2x, bbox_2x, text_x_2x, fs, fs0,
                   failedAt, metrics, prev>>

NewImage2x_shared ==
    /\ pc = "new_2x"
    /\ img_2x' = Image_new(img_2x_size, Background)
    /\ img' = Image_new(img_2x_size, Background)
    /\ images' = Append(images, img_2x_size)
    /\ pc' = "line_2x"
    /\ UNCHANGED <<run, arrow_head_size, font, text, bbox, text_x,
                   font_2x, bbox_2x, text_x_2x, fs, fs0, out, failedAt,
                   metrics, prev>>

\* lines 66-67
NewImage2x ==
    /\ pc = "new_2x"
    /\ img_2x' = Image_new(img_2x_size, Background)
    /\ images' = Append(images, img_2x_size)
    /\ pc' = "line_2x"
    /\ UNCHANGED <<run, img, arrow_head_size, font, text, bbox, text_x,
                   font_2x, bbox_2x, text_x_2x, fs, fs0, out, failedAt,
                   metrics, prev>>

\* lines 78-79
DrawLine2x ==
    /\ pc = "line_2x"
    /\ img_2x' = Draw(img_2x, LineOp(<< <<arrow_start_x_2x, arrow_y_2x>>,
                                        <<arrow_end_x_2x, arrow_y_2x>> >>,
                                     Stroke, arrow_width_2x))
    /\ pc' = "polygon_2x"
    /\ UNCHANGED <<run, images, img, arrow_head_size, font, text, bbox,
                   text_x, font_2x, bbox_2x, text_x_2x, fs, fs0, out,
                   failedAt, metrics, prev>>

\* lines 82-87
DrawPolygon2x ==
    /\ pc = "polygon_2x"
    /\ img_2x' = Draw(img_2x, PolygonOp(arrow_head_2x, Stroke))
    /\ pc' = "font_2x"
    /\ UNCHANGED <<run, images, img, arrow_head_size, font, text, bbox,
                   text_x, font_2x, bbox_2x, text_x_2x, fs, fs0, out,
                   failedAt, metrics, prev>>

\* lines 90-93: as LoadFont, with size 28
LoadFont2x ==
    /\ pc = "font_2x"
    /\ \E ok \in BOOLEAN :
         font_2x' = IF ok THEN truetype(28) ELSE load_default
    /\ pc' = "bbox_2x"
    /\ UNCHANGED <<run, images, img, img_2x, arrow_head_size, font, text,
                   bbox, text_x, bbox_2x, text_x_2x, fs, fs0, out,
                   failedAt, metrics, prev>>

\* lines 95-98
Measure2x ==
    /\ pc = "bbox_2x"
    /\ bbox_2x' = metrics[font_2x]
    /\ text_x_2x' = TextX_2x(metrics[font_2x])
    /\ pc' = "text_2x"
    /\ UNCHANGED <<run, images, img, img_2x, arrow_head_size, font, text,
                   bbox, text_x, font_2x, fs, fs0, out, failedAt,
                   metrics, prev>>

\* line 100
DrawText2x ==
    /\ pc = "text_2x"
    /\ img_2x' = Draw(img_2x, TextOp(<<text_x_2x, text_y_2x>>, text,
                                     TextColor, font_2x))
    /\ pc' = "save_2x"
    /\ UNCHANGED <<run, images, img, arrow_head_size, font, text, bbox,
                   text_x, font_2x, bbox_2x, text_x_2x, fs, fs0, out,
                   failedAt, metrics, prev>>

\* lines 102-103
SaveImage2x ==
    /\ pc = "save_2x"
    /\ fs' = WriteFile(fs, output_path_2x, PNG(img_2x))
    /\ pc' = "print_2x"
    /\ UNCHANGED <<run, images, img, img_2x, arrow_head_size, font, text,
                   bbox, text_x, font_2x, bbox_2x, text_x_2x, fs0, out,
                   failedAt, metrics, prev>>

\* line 104, after which the script ends
PrintCreated2x ==
    /\ pc = "print_2x"
    /\ out' = Append(out, Msg_2x)
    /\ pc' = "done"
    /\ UNCHANGED <<run, images, img, img_2x, arrow_head_size, font, text,
                   bbox, text_x, font_2x, bbox_2x, text_x_2x, fs, fs0,
                   failedAt, metrics, prev>>

(* ------------------------- unhandled exceptions ------------------------ *)

\* the statements, in program order
Order ==
    <<"import", "new", "line", "head_size", "polygon", "font", "caption",
      "bbox", "text", "save", "print", "new_2x", "line_2x", "polygon_2x",
      "font_2x", "bbox_2x", "text_2x", "save_2x", "print_2x">>

Pos(p) == CHOOSE i \in 1..Len(Order) : Order[i] = p

StepAfter(p) == IF Pos(p) = Len(Order) THEN "done" ELSE Order[Pos(p) + 1]

\* the statements that call into the library outside a try block
Fallible ==
    {"import", "new", "line", "polygon", "bbox", "text", "save", "print",
     "new_2x", "line_2x", "polygon_2x", "bbox_2x", "text_2x", "save_2x",
     "print_2x"}

\* what a save that raises leaves under the name it was writing
SaveFailure(f, name) ==
    {f, [f EXCEPT ![name] = Partial], [f EXCEPT ![name] = Absent]}

Raise_swallowed ==
    /\ pc \in Fallible
    /\ failedAt' = pc
    /\ pc' = StepAfter(pc)
    /\ UNCHANGED <<run, images, img, img_2x, arrow_head_size, font, text,
                   bbox, text_x, font_2x, bbox_2x, text_x_2x, fs, fs0, out,
                   metrics, prev>>

\* a call outside the try blocks raises: nothing catches it, the traceback
\* names the statement and the interpreter exits
Raise ==
    /\ pc \in Fallible
    /\ failedAt' = pc
    /\ pc' = "error"
    /\ fs' \in CASE pc = "save" -> SaveFailure(fs, output_path)
                 [] pc = "save_2x" -> SaveFailure(fs, output_path_2x)
                 [] OTHER -> {fs}
    /\ UNCHANGED <<run, images, img, img_2x, arrow_head_size, font, text,
                   bbox, text_x, font_2x, bbox_2x, text_x_2x, fs0, out,
                   metrics, prev>>

(* ------------------------------ re-running ----------------------------- *)

\* the script is started again in the same working directory: a new
\* process, in which no name is bound, and the files the last run left
Rerun ==
    /\ pc = "done"
    /\ run < MaxRuns
    /\ run' = run + 1
    /\ prev' = [fs |-> fs, font |-> font, font_2x |-> font_2x]
    /\ fs0' = fs
    /\ pc' = "import"
    /\ images' = <<>>
    /\ img' = NoImage
    /\ img_2x' = NoImage
    /\ arrow_head_size' = 0
    /\ font' = NoFont
    /\ text' = ""
    /\ bbox' = NoBBox
    /\ text_x' = 0
    /\ font_2x' = NoFont
    /\ bbox_2x' = NoBBox
    /\ text_x_2x' = 0
    /\ out' = <<>>
    /\ failedAt' = "none"
    /\ UNCHANGED <<fs, metrics>>

(* --------------------------- specifications ---------------------------- *)

\* the statements of the script, each completing normally
Step ==
    \/ Import
    \/ NewImage
    \/ DrawLine
    \/ SetHeadSize
    \/ DrawPolygon
    \/ LoadFont
    \/ SetCaption
    \/ Measure
    \/ DrawText
    \/ SaveImage
    \/ PrintCreated
    \/ NewImage2x
    \/ DrawLine2x
    \/ DrawPolygon2x
    \/ LoadFont2x
    \/ Measure2x
    \/ DrawText2x
    \/ SaveImage2x
    \/ PrintCreated2x

Next ==
    \/ Step
    \/ Raise
    \/ Rerun

Spec == Init /\ [][Next]_vars

\* no library call outside the try blocks raises
NextOK ==
    \/ Step
    \/ Rerun

SpecOK == Init /\ [][NextOK]_vars /\ WF_vars(NextOK)

(* ------------------------------- claims -------------------------------- *)

\* C1: a run that completes has created exactly two canvases, the first of
\* dimensions (660, 400) and the second (1320, 800) = (2*WIDTH, 2*HEIGHT),
\* both of the uniform colour (240, 240, 245), and has saved them under
\* 'dmg-background.png' and 'dmg-background@2x.png'.
C1_TwoCanvases ==
    pc = "done" =>
        /\ images = << <<660, 400>>, <<1320, 800>> >>
        /\ img.size = <<660, 400>>
        /\ img_2x.size = <<1320, 800>>
        /\ img_2x.size = <<2 * WIDTH, 2 * HEIGHT>>
        /\ img.color = <<240, 240, 245>>
        /\ img_2x.color = <<240, 240, 245>>
        /\ fs["dmg-background.png"].kind = "png"
        /\ fs["dmg-background.png"].size = <<660, 400>>
        /\ fs["dmg-background.png"].data[1] = <<240, 240, 245>>
        /\ fs["dmg-background@2x.png"].kind = "png"
        /\ fs["dmg-background@2x.png"].size = <<1320, 800>>
        /\ fs["dmg-background@2x.png"].data[1] = <<240, 240, 245>>

C1_Witness == pc = "done" /\ Len(images) = 2 /\ run = 1

DoneBothSaved ==
    /\ pc = "done"
    /\ out = <<Msg, Msg_2x>>
    /\ fs[output_path] = PNG(img)
    /\ fs[output_path_2x] = PNG(img_2x)

\* C2: a font load never stops the run. Each of the two loads either
\* succeeds or is replaced by the default font, prints nothing and goes on
\* to the next statement; and whichever way the two loads went, the run
\* reaches both saves and prints both confirmation lines.
C2_FontLoadNeverStops ==
    /\ [][ /\ pc = "font" =>
                /\ pc' = "caption"
                /\ font' \in {truetype(14), load_default}
                /\ out' = out
                /\ failedAt' = "none"
           /\ pc = "font_2x" =>
                /\ pc' = "bbox_2x"
                /\ font_2x' \in {truetype(28), load_default}
                /\ out' = out
                /\ failedAt' = "none" ]_vars
    /\ \A f1 \in {truetype(14), load_default} :
         \A f2 \in {truetype(28), load_default} :
           (pc = "bbox_2x" /\ font = f1 /\ font_2x = f2)
              ~> (DoneBothSaved /\ font = f1 /\ font_2x = f2)

C2_Witness ==
    DoneBothSaved /\ font = load_default /\ font_2x = load_default

\* C3: with no call raising, a run started in any working directory does
\* not end in error, replaces whatever was under the two output names by
\* the encodings of this run's canvases, adds no other file, and a second
\* run with the same font outcomes leaves the directory exactly as the
\* first run left it.
C3_Idempotent ==
    /\ pc # "error"
    /\ pc = "done" =>
        /\ Files(fs) = OutputNames \cup Files(fs0)
        /\ fs[output_path] = PNG(img)
        /\ fs[output_path_2x] = PNG(img_2x)
        /\ fs[OtherFile] = fs0[OtherFile]
        /\ (run > 1 /\ font = prev.font /\ font_2x = prev.font_2x)
              => fs = prev.fs

C3_Witness ==
    /\ pc = "done"
    /\ run = 2
    /\ font = prev.font
    /\ font_2x = prev.font_2x
    /\ fs = prev.fs

\* C4: the arrowhead is the second shape of each canvas, a polygon filled in
\* (150,150,160): (402,190), (380,180), (380,200) in the base render and
\* (804,380), (760,360), (760,400), the doubled base vertices, in the 2x one.
C4_Arrowhead ==
    /\ Len(img.ops) >= 2 =>
        /\ img.ops[2].op = "polygon"
        /\ img.ops[2].fill = <<150, 150, 160>>
        /\ img.ops[2].xy = << <<402, 190>>, <<380, 180>>, <<380, 200>> >>
    /\ Len(img_2x.ops) >= 2 =>
        /\ img_2x.ops[2].op = "polygon"
        /\ img_2x.ops[2].fill = <<150, 150, 160>>
        /\ img_2x.ops[2].xy = << <<804, 380>>, <<760, 360>>, <<760, 400>> >>
        /\ \A i \in 1..3 :
             img_2x.ops[2].xy[i] =
                <<2 * img.ops[2].xy[i][1], 2 * img.ops[2].xy[i][2]>>

C4_Witness == Len(img.ops) >= 2 /\ Len(img_2x.ops) >= 2 /\ pc = "font_2x"

Abs(n) == IF n < 0 THEN -n ELSE n

\* twice the distance between the horizontal midpoint of the caption drawn
\* with its origin at x, whose box measured at origin 0 is b, and mid2 / 2
OffCentre2(x, b, mid2) == Abs((2 * x + b[1] + b[3]) - mid2)

\* C6: the caption as drawn is horizontally centred between the arrow's
\* start and end: its midpoint is within 1 pixel of 325 (base) and 650 (2x).
C6_CaptionCentred ==
    /\ Len(img.ops) >= 3 =>
        OffCentre2(img.ops[3].xy[1][1], bbox, 2 * 325) <= 2
    /\ Len(img_2x.ops) >= 3 =>
        OffCentre2(img_2x.ops[3].xy[1][1], bbox_2x, 2 * 650) <= 2

\* C7: the renders run one after the other and a file is announced only
\* once saved: the 2x canvas exists only after the base file is saved and
\* announced, each confirmation line follows its save, and a completed run
\* has printed exactly the two lines, the base one first.
C7_Sequential ==
    /\ img_2x # NoImage => (out # <<>> /\ fs[output_path] = PNG(img))
    /\ Len(out) >= 1 => (out[1] = Msg /\ fs[output_path] = PNG(img))
    /\ Len(out) >= 2 =>
          (out[2] = Msg_2x /\ fs[output_path_2x] = PNG(img_2x))
    /\ Len(out) <= 2
    /\ pc = "done" => out = <<Msg, Msg_2x>>

C7_Witness ==
    /\ pc = "done"
    /\ out = <<Msg, Msg_2x>>
    /\ fs0[output_path] = Stale
    /\ fs0[output_path_2x] = Absent

BeforeSave == {"import", "new", "line", "polygon", "bbox", "text"}

Render2x ==
    {"new_2x", "line_2x", "polygon_2x", "font_2x", "bbox_2x", "text_2x",
     "save_2x", "print_2x"}

RenderBase ==
    {"new", "line", "head_size", "polygon", "font", "caption", "bbox",
     "text", "save", "print"}

\* C8: a call that raises outside the font loads ends the run in the error
\* state, from which no step is taken; no confirmation line is printed for
\* a file whose save did not complete; a failure in the 2x render leaves
\* the base file written and only the base line printed; a failure before
\* the first save leaves the directory as it was.
C8_Fatal ==
    /\ [](failedAt # "none" => (pc = "error" /\ failedAt \in Fallible))
    /\ [][pc = "error" => UNCHANGED vars]_vars
    /\ [](pc = "error" =>
            /\ failedAt \in BeforeSave => (fs = fs0 /\ out = <<>>)
            /\ failedAt = "save" => out = <<>>
            /\ failedAt = "print" =>
                  (out = <<>> /\ fs[output_path] = PNG(img))
            /\ failedAt \in Render2x =>
                  (out = <<Msg>> /\ fs[output_path] = PNG(img))
            /\ \A i \in 1..Len(out) : out[i] # Msg_2x
            /\ Len(out) >= 1 => fs[output_path] = PNG(img))

C8_Witness ==
    /\ pc = "error"
    /\ failedAt = "save_2x"
    /\ fs[output_path_2x] = Partial
    /\ out = <<Msg>>

\* C9: in every run the font of the 2x caption is larger than the font of
\* the base caption, whichever way the two loads went.
C9_LargerFont == font_2x # NoFont => font_2x.size > font.size

\* C10: the steps of the 2x render leave the base canvas and the base file
\* unchanged, the steps of the base render leave everything of the 2x
\* render unchanged, and within a run the caption string and
\* arrow_head_size never change once assigned.
C10_Independent ==
    [][ /\ pc \in Render2x =>
            (img' = img /\ fs'[output_path] = fs[output_path])
        /\ pc \in RenderBase =>
            /\ img_2x' = img_2x
            /\ font_2x' = font_2x
            /\ bbox_2x' = bbox_2x
            /\ text_x_2x' = text_x_2x
            /\ fs'[output_path_2x] = fs[output_path_2x]
        /\ (text # "" /\ run' = run) => text' = text
        /\ (arrow_head_size # 0 /\ run' = run) =>
              arrow_head_size' = arrow_head_size ]_vars

C10_Witness ==
    /\ pc = "done"
    /\ Len(img.ops) = 3
    /\ Len(img_2x.ops) = 3
    /\ img.ops # img_2x.ops
    /\ fs[output_path] # fs[output_path_2x]

====
